---- MODULE Spec2Model ----
(***************************************************************************)
(* Release-distribution workflow of the Veestributes backend:              *)
(*   - the releases table (status, title) and the platforms table,         *)
(*   - the upload handler (app.py), the start-distribution and             *)
(*     update-release handlers (routes.py),                                *)
(*   - the distribute_release Celery task (tasks.py), step by step.        *)
(* Handlers and tasks run in separate workers, each with its own ORM       *)
(* session, so a handler's read and its commit are separate steps.         *)
(***************************************************************************)
EXTENDS Integers, Sequences, FiniteSets, TLC

\* ---------------------------------------------------------------- bounds
MaxReleases == 1
NumPlatforms == 2
MaxJobs == 2
MaxRequests == 1
\* Start-distribution requests handled at the same time, where that is the subject.
ConcurrentRequests == 2

ReleaseIds == 1..MaxReleases
PlatformIds == 1..NumPlatforms
Jobs == 1..MaxJobs
Requests == 1..MaxRequests
RacingRequests == 1..ConcurrentRequests

None == "None"
Titles == {"Song A"}
UserEmail == "artist@example.com"
ErrorMessages == {"platform API error"}

\* ------------------------------------------------------- reference data
\* platforms.name of the row with primary key i (unique, not null).
PlatformName(i) ==
  CASE i = 1 -> "Spotify"
    [] i = 2 -> "Tidal HiFi"
    [] i = 3 -> "Apple Music"
    [] i = 4 -> "YouTube Music"
    [] OTHER -> "Deezer"

\* str.lower() on the platform names above.
Lower(name) ==
  CASE name = "Spotify" -> "spotify"
    [] name = "Tidal HiFi" -> "tidal hifi"
    [] name = "Apple Music" -> "apple music"
    [] name = "YouTube Music" -> "youtube music"
    [] OTHER -> "deezer"

\* str.replace(" ", "") on the lower-cased platform names.
NoSpaces(name) ==
  CASE name = "tidal hifi" -> "tidalhifi"
    [] name = "apple music" -> "applemusic"
    [] name = "youtube music" -> "youtubemusic"
    [] OTHER -> name

\* ------------------------------------------------------------- dicts
EmptyDict == [k \in {} |-> None]
Put(d, k, v) == [x \in (DOMAIN d) \cup {k} |-> IF x = k THEN v ELSE d[x]]
\* dict.get(key): the value, or None when the key is missing.
Get(d, k) == IF k \in DOMAIN d THEN d[k] ELSE None

\* The keys of a results dict whose outcome has status s.
WithStatus(results, s) == {n \in DOMAIN results : results[n]["status"] = s}

VARIABLES
  status,               \* releases.status by release id; "none" = no such row
  title,                \* releases.title by release id
  is_active,            \* platforms.is_active by platform id
  distribution_logs,    \* rows of the distribution_logs table
  jpc,                  \* position of each distribute_release task
  jrel,                 \* its release_id argument
  loaded_status,        \* release.status as Release.query.get returned it
  jidx,                 \* index of the next platform of its loop
  distribution_results, \* its local dict distribution_results
  distribution_status,  \* attribute release.distribution_status of its session's object
  raised,               \* platform ids whose attempt raised inside the inner try
  jerror,               \* the exception the task re-raised ("None" when none)
  rpc,                  \* position of each start-distribution request
  rrel,                 \* its release_id
  rseen,                \* release.status as its query returned it
  resp,                 \* its HTTP response code (0 = not answered yet)
  outbox,               \* send_distribution_notification messages handed to the broker
  delivered,            \* messages send_distribution_notification has mailed
  delivery_failed,      \* messages whose send_distribution_notification raised
  audio_file,           \* the file at file_path, as the file system and mutagen see it
  file_record,          \* the files row with primary key file_id
  extracted,            \* what a call of extract_metadata gave (<<>> = not called)
  validation,           \* what a call of validate_audio_file gave (<<>> = not called)
  tpc,                  \* position of the process_audio_file task
  t_metadata,           \* its local `metadata` (<<>> = unbound)
  t_validation,         \* its local `validation` (<<>> = unbound)
  terror,               \* the exception it re-raised ("None" when none)
  image,                \* the picture in artwork_data, as PIL sees it
  max_size,             \* the max_size argument of process_artwork
  artwork,              \* what a call of process_artwork gave (<<>> = not called)
  fs,                   \* the entries of the scratch directories, by directory and number
  dir_exists,           \* os.path.exists of each scratch directory
  cpc,                  \* position of the cleanup_temp_files task
  cdir,                 \* index of the directory cleanup_old_files is working on
  scanned,              \* the entries of glob.glob still to be visited
  removed,              \* the entries the task's os.remove deleted
  cerror                \* the exception the task re-raised ("None" when none)

vars == <<status, title, is_active, distribution_logs, jpc, jrel, loaded_status,
          jidx, distribution_results, distribution_status, raised, jerror,
          rpc, rrel, rseen, resp, outbox, delivered, delivery_failed,
          audio_file, file_record, extracted, validation, tpc, t_metadata,
          t_validation, terror, image, max_size, artwork,
          fs, dir_exists, cpc, cdir, scanned, removed, cerror>>

jobVars == <<jpc, jrel, loaded_status, jidx, distribution_results,
             distribution_status, raised, jerror>>
reqVars == <<rpc, rrel, rseen, resp>>
dbVars == <<status, title, is_active, distribution_logs>>
mailVars == <<delivered, delivery_failed>>
distVars == <<dbVars, jobVars, reqVars, outbox, mailVars>>
callVars == <<extracted, validation>>
taskVars == <<tpc, t_metadata, t_validation, terror>>
fileVars == <<audio_file, file_record, callVars, taskVars>>
artVars == <<image, max_size, artwork>>
cleanTaskVars == <<cpc, cdir, scanned, removed, cerror>>
cleanVars == <<fs, dir_exists, cleanTaskVars>>
sideVars == <<fileVars, artVars, cleanVars>>

Statuses == {"draft", "processing", "distributed", "failed"}

\* The releases row with primary key r exists ("deleted": the row is gone and its
\* key is not given out again).
Exists(r) == status[r] \in Statuses

\* Release.status column default.
DefaultStatus == "draft"

\* An upload status outside the column's documented values.
UploadStatusUploaded == "uploaded"

\* The status the upload handler gives a new release.
UploadStatus == "processing"

\* The status the start-distribution handler requires.
RequiredStatus == "draft"

\* ------------------------------------------------ distribute_to_platform
\* A submission whose result lacks the platform's id.
DistributeToPlatformNoId(rid, name) ==
  [url |-> "https://" \o NoSpaces(Lower(name)) \o ".com/release/" \o ToString(rid)]

DistributeToPlatform(rid, name) ==
  LET low == Lower(name) IN
  CASE low = "spotify" ->
         [url |-> "https://open.spotify.com/album/" \o ToString(rid),
          submission_id |-> "spotify_" \o ToString(rid)]
    [] low = "apple music" ->
         [url |-> "https://music.apple.com/album/" \o ToString(rid),
          submission_id |-> "apple_" \o ToString(rid)]
    [] low = "youtube music" ->
         [url |-> "https://music.youtube.com/playlist?list=" \o ToString(rid),
          submission_id |-> "youtube_" \o ToString(rid)]
    [] OTHER ->
         [url |-> "https://" \o NoSpaces(low) \o ".com/release/" \o ToString(rid),
          submission_id |-> low \o "_" \o ToString(rid)]

\* The dict stored for a platform whose submission returned `result`.
SuccessResult(result) ==
  [status |-> "success",
   url |-> Get(result, "url"),
   submission_id |-> Get(result, "submission_id")]

\* The dict stored for a platform whose attempt raised exception e.
FailureResult(e) == [status |-> "failed", error |-> e]

\* Platform.query.all(): the ids the task iterates over, in primary-key order.
EnumeratedPlatforms == PlatformIds

\* ---------------------------------------------------- metadata_processor
\* The keys of MetadataProcessor.SUPPORTED_FORMATS.
SUPPORTED_FORMATS == {".mp3", ".flac", ".wv", ".ogg", ".aac", ".m4a"}

\* The thresholds of validate_audio_file.
MinDuration == 30
MinSampleRate == 44100
MinBitrate == 128000
MinFileSize == 480000

\* Extensions of the uploaded paths.
Extensions == {".mp3", ".MP3", ".wav"}

\* str.lower() on the extensions above.
LowerExt(ext) == IF ext = ".MP3" THEN ".mp3" ELSE ext

\* audio.info.length in tenths of a second.
Lengths == {299, 300, 2400}
SampleRates == {22050, 44100, 48000}
\* audio.info.bitrate; <<>> when the info object has no such attribute.
Bitrates == {<<>>, <<0>>, <<127999>>, <<128000>>, <<160000>>}
\* os.path.getsize in bytes.
Sizes == {479999, 480000, 1000000}

\* The files a path may name: present or not, parsable by mutagen or not.
AudioFiles ==
  [exists : BOOLEAN, ext : Extensions, readable : BOOLEAN, length : Lengths,
   sample_rate : SampleRates, bitrate : Bitrates, size : Sizes]

\* What a call gave: the exception it raised ("None" when it returned) and the
\* value it returned (<<>> when it raised).
Raise(e) == [raised |-> e, value |-> <<>>]
Return(v) == [raised |-> None, value |-> <<v>>]

\* int(x) on a length given in tenths of a second.
IntSeconds(tenths) == tenths \div 10

\* extract_metadata with the extension looked at before the path.
ExtractMetadataExtensionFirst(f) ==
  IF LowerExt(f.ext) \notin SUPPORTED_FORMATS
    THEN Raise("ValueError: Unsupported audio format")
  ELSE IF ~f.exists \/ ~f.readable
    THEN Raise("MutagenError")
  ELSE Return([duration |-> IntSeconds(f.length), bitrate |-> f.bitrate,
               sample_rate |-> f.sample_rate])

\* extract_metadata(file_path): the technical fields of the metadata dict.
ExtractMetadata(f) ==
  IF ~f.exists
    THEN Raise("FileNotFoundError: Audio file not found")
  ELSE IF LowerExt(f.ext) \notin SUPPORTED_FORMATS
    THEN Raise("ValueError: Unsupported audio format")
  ELSE IF ~f.readable
    THEN Raise("MutagenError")
  ELSE Return([duration |-> IntSeconds(f.length), bitrate |-> f.bitrate,
               sample_rate |-> f.sample_rate])

\* Python truth value of an optional integer: None and 0 are false.
Truthy(x) == x # <<>> /\ x[1] # 0

\* A validity flag that ignores the errors.
ValidityIgnoringErrors(errors) == TRUE

\* is_valid starts True and `if validation['errors']` sets it to False.
Validity(errors) == IF errors # <<>> THEN FALSE ELSE TRUE

\* validate_audio_file(file_path): the dict it returns; it never raises.
ValidateAudioFile(f) ==
  LET got == ExtractMetadata(f) IN
  IF got.raised # None
    THEN [is_valid |-> FALSE,
          errors |-> <<"Could not validate audio file: " \o got.raised>>,
          warnings |-> <<>>]
    ELSE LET metadata == got.value[1]
             errors == IF metadata.duration < MinDuration
                         THEN <<"Audio file must be at least 30 seconds long">>
                         ELSE <<>>
             w1 == IF metadata.sample_rate < MinSampleRate
                     THEN <<"Sample rate is below 44.1kHz">> ELSE <<>>
             w2 == IF Truthy(metadata.bitrate) /\ metadata.bitrate[1] < MinBitrate
                     THEN <<"Bitrate is below 128kbps">> ELSE <<>>
             w3 == IF f.size < MinFileSize
                     THEN <<"File size seems unusually small">> ELSE <<>>
         IN [is_valid |-> Validity(errors), errors |-> errors,
             warnings |-> w1 \o w2 \o w3]

\* The files row before the task ran (column defaults), when there is one.
FileRecords ==
  [exists : BOOLEAN, processing_status : {"pending"}, processing_error : {None},
   duration : {<<>>}, bitrate : {<<>>}, sample_rate : {<<>>}]

\* ------------------------------------------------------- process_artwork
\* The smallest width and height process_artwork accepts.
MinArtworkSize == 1400

Abs(n) == IF n < 0 THEN 0 - n ELSE n
AtLeastOne(n) == IF n < 1 THEN 1 ELSE n

\* Image.thumbnail(max): the size PIL resizes a w x h image to. It keeps the
\* image when it fits; otherwise it fixes one side to the box and rounds the
\* other to the floor or the ceiling of its exact value, whichever is closer to
\* the aspect ratio w / h (the floor on a tie).
ThumbnailSize(w, h, max) ==
  LET x == max[1]
      y == max[2]
  IN IF x >= w /\ y >= h
       THEN <<w, h>>
     ELSE IF x * h >= y * w
       THEN LET lo == (y * w) \div h
                hi == IF lo * h = y * w THEN lo ELSE lo + 1
                pick == IF Abs(w * y - lo * h) <= Abs(w * y - hi * h) THEN lo ELSE hi
            IN <<AtLeastOne(pick), y>>
       ELSE LET lo == (x * h) \div w
                hi == IF lo * w = x * h THEN lo ELSE lo + 1
                pick == IF lo = 0 \/ Abs(w * lo - x * h) * hi <= Abs(w * hi - x * h) * lo
                          THEN lo ELSE hi
            IN <<x, AtLeastOne(pick)>>

\* The modes PIL's JPEG encoder writes.
JpegModes == {"1", "L", "RGB", "RGBX", "CMYK", "YCbCr"}

\* The pictures artwork_data may hold: decodable by PIL or not.
ImageSides == {1000, 1399, 1400, 1401, 2000, 3000}
ImageModes == {"RGB", "RGBA", "L", "P"}
Images == [valid : BOOLEAN, width : ImageSides, height : ImageSides, mode : ImageModes]
MaxSizes == {<<1400, 1400>>, <<3000, 3000>>, <<2000, 1400>>, <<1000, 1000>>}

\* process_artwork(artwork_data, max_size): the width, height and format of the
\* dict it returns, or the ValueError every exception is turned into.
ProcessArtwork(img, max) ==
  IF ~img.valid
    THEN Raise("Could not process artwork: cannot identify image file")
  ELSE IF img.width < MinArtworkSize \/ img.height < MinArtworkSize
    THEN Raise("Could not process artwork: Artwork must be at least 1400x1400 pixels")
  ELSE LET size == IF img.width > max[1] \/ img.height > max[2]
                     THEN ThumbnailSize(img.width, img.height, max)
                     ELSE <<img.width, img.height>>
           mode == IF img.mode \notin {"RGB", "RGBA"} THEN "RGB" ELSE img.mode
       IN IF mode \notin JpegModes
            THEN Raise("Could not process artwork: cannot write mode " \o mode \o " as JPEG")
            ELSE Return([width |-> size[1], height |-> size[2], format |-> "JPEG"])

\* ----------------------------------------------------- cleanup_old_files
\* Entries per scratch directory.
FilesPerDir == 1

\* The directories cleanup_temp_files cleans, in its order: <app>/temp without
\* a pattern, then the upload folder with the pattern '*.tmp'.
Dirs == <<"temp", "uploads">>
DirNames == {"temp", "uploads"}
EntryNumbers == 1..FilesPerDir

\* The mtime of an entry against the cutoff of its directory.
Ages == {"older", "equal", "newer"}

\* A directory entry: a regular file or a subdirectory; with a name that starts
\* with a dot or not, and ends in .tmp or not; that os.remove may delete or not.
Entries ==
  [present : {TRUE}, kind : {"file", "dir"}, hidden : BOOLEAN, tmp : BOOLEAN,
   age : Ages, removable : BOOLEAN]

\* A number under which the directory has no entry.
NoEntry ==
  [present |-> FALSE, kind |-> "file", hidden |-> FALSE, tmp |-> FALSE,
   age |-> "newer", removable |-> TRUE]

\* glob.glob matches '*' and '*.tmp' against names that do not start with a dot.
GlobMatches(d, e) ==
  /\ e.present
  /\ ~e.hidden
  /\ d = "uploads" => e.tmp

\* glob.glob(os.path.join(directory, pattern or '*')): the matching entries.
RECURSIVE GlobFrom(_, _)
GlobFrom(d, k) ==
  IF k \notin EntryNumbers
    THEN <<>>
    ELSE (IF GlobMatches(d, fs[d, k]) THEN <<k>> ELSE <<>>) \o GlobFrom(d, k + 1)

\* ------------------------------------------------------------------ Init
\* The database a deployment starts with: draft releases come from the column
\* default only.
InitDatabase ==
  /\ status \in [ReleaseIds -> {"none", DefaultStatus}]
  /\ \A r \in ReleaseIds : r > 1 /\ status[r] # "none" => status[r - 1] # "none"
  /\ title = [r \in ReleaseIds |-> IF status[r] = "none" THEN None ELSE "Song A"]
  /\ is_active \in [PlatformIds -> BOOLEAN]
  /\ distribution_logs = {}

\* A database without releases.
EmptyDatabase ==
  /\ status = [r \in ReleaseIds |-> "none"]
  /\ title = [r \in ReleaseIds |-> None]
  /\ is_active = [i \in PlatformIds |-> TRUE]
  /\ distribution_logs = {}

\* No distribution task or notification has run.
InitTasks ==
  /\ jpc = [j \in Jobs |-> "queued"]
  /\ jrel = [j \in Jobs |-> 0]
  /\ loaded_status = [j \in Jobs |-> None]
  /\ jidx = [j \in Jobs |-> 0]
  /\ distribution_results = [j \in Jobs |-> EmptyDict]
  /\ distribution_status = [j \in Jobs |-> EmptyDict]
  /\ raised = [j \in Jobs |-> {}]
  /\ jerror = [j \in Jobs |-> None]
  /\ outbox = {}
  /\ delivered = {}
  /\ delivery_failed = {}

\* The start-distribution requests Q have arrived and none was handled.
InitRequests(Q) ==
  /\ rpc = [q \in Q |-> "idle"]
  /\ rrel = [q \in Q |-> 0]
  /\ rseen = [q \in Q |-> None]
  /\ resp = [q \in Q |-> 0]

\* No distribution task, request or notification has run.
InitWorkers ==
  /\ InitTasks
  /\ InitRequests(Requests)

\* No call of the metadata processor and no file task has run on the file f with
\* files row rec.
InitFile(f, rec) ==
  /\ audio_file = f
  /\ file_record = rec
  /\ extracted = <<>>
  /\ validation = <<>>
  /\ tpc = "queued"
  /\ t_metadata = <<>>
  /\ t_validation = <<>>
  /\ terror = None

\* No call of process_artwork has run on picture img.
InitArtwork(img, max) ==
  /\ image = img
  /\ max_size = max
  /\ artwork = <<>>

\* The cleanup task has not started on directories dirs with entries files.
InitCleanup(dirs, files) ==
  /\ dir_exists = dirs
  /\ fs = files
  /\ cpc = "scan"
  /\ cdir = 1
  /\ scanned = <<>>
  /\ removed = {}
  /\ cerror = None

\* Empty scratch directories.
SomeDirs == [d \in DirNames |-> TRUE]
NoEntries == [x \in DirNames \X EntryNumbers |-> NoEntry]

\* The upload that is present while the distribution workflow runs.
SomeAudioFile ==
  [exists |-> TRUE, ext |-> ".mp3", readable |-> TRUE, length |-> 2400,
   sample_rate |-> 44100, bitrate |-> <<160000>>, size |-> 1000000]
SomeFileRecord ==
  [exists |-> TRUE, processing_status |-> "pending", processing_error |-> None,
   duration |-> <<>>, bitrate |-> <<>>, sample_rate |-> <<>>]
SomeImage == [valid |-> TRUE, width |-> 2000, height |-> 2000, mode |-> "RGB"]

Init ==
  /\ InitDatabase
  /\ InitWorkers
  /\ InitFile(SomeAudioFile, SomeFileRecord)
  /\ InitArtwork(SomeImage, <<MinArtworkSize, MinArtworkSize>>)
  /\ InitCleanup(SomeDirs, NoEntries)

\* ------------------------------------------------------- upload_release
\* POST /api/upload: inserts a release row under the next free primary key.
UploadRelease(t) ==
  /\ \E r \in ReleaseIds :
       /\ status[r] = "none"
       /\ \A r2 \in ReleaseIds : r2 < r => status[r2] # "none"
       /\ status' = [status EXCEPT ![r] = UploadStatus]
       /\ title' = [title EXCEPT ![r] = t]
  /\ UNCHANGED <<is_active, distribution_logs, jobVars, reqVars, outbox>>
  /\ UNCHANGED <<mailVars, sideVars>>

\* ------------------------------------------------------- update_release
\* PUT /api/releases/<id>: writes the allowed descriptive fields only.
UpdateRelease(r, t) ==
  /\ Exists(r)
  /\ title' = [title EXCEPT ![r] = t]
  /\ UNCHANGED <<status, is_active, distribution_logs, jobVars, reqVars, outbox>>
  /\ UNCHANGED <<mailVars, sideVars>>

\* ------------------------------------- POST /api/releases/<id>/distribute
\* The handler's test of the release it loaded.
ReadyForDistribution(s) == s = RequiredStatus

\* Query and the two early returns (404, 400).
\* Requests are numbered in the order they arrive.
RouteLoad(q, r) ==
  /\ rpc[q] = "idle"
  /\ \A k \in DOMAIN rpc : k < q => rpc[k] # "idle"
  /\ rrel' = [rrel EXCEPT ![q] = r]
  /\ IF ~Exists(r)
       THEN /\ resp' = [resp EXCEPT ![q] = 404]
            /\ rpc' = [rpc EXCEPT ![q] = "done"]
            /\ UNCHANGED rseen
       ELSE /\ rseen' = [rseen EXCEPT ![q] = status[r]]
            /\ IF ReadyForDistribution(status[r])
                 THEN /\ rpc' = [rpc EXCEPT ![q] = "write"]
                      /\ UNCHANGED resp
                 ELSE /\ resp' = [resp EXCEPT ![q] = 400]
                      /\ rpc' = [rpc EXCEPT ![q] = "done"]
  /\ UNCHANGED <<dbVars, jobVars, outbox>>
  /\ UNCHANGED <<mailVars, sideVars>>

\* release.status = 'processing'; commit; or the commit raises and is rolled back
\* (it always raises when the row was deleted since the query).
RouteCommit(q) ==
  /\ rpc[q] = "write"
  /\ rpc' = [rpc EXCEPT ![q] = "done"]
  /\ \/ /\ Exists(rrel[q])
        /\ status' = [status EXCEPT ![rrel[q]] = "processing"]
        /\ resp' = [resp EXCEPT ![q] = 200]
     \/ /\ resp' = [resp EXCEPT ![q] = 500]
        /\ UNCHANGED status
  /\ UNCHANGED <<title, is_active, distribution_logs, jobVars, rrel, rseen, outbox>>
  /\ UNCHANGED <<mailVars, sideVars>>

\* ------------------------------------------------ distribute_release task
\* The outer except: log, report FAILURE, re-raise.
JobFail(j, e) ==
  /\ jpc' = [jpc EXCEPT ![j] = "failure"]
  /\ jerror' = [jerror EXCEPT ![j] = e]

\* Release.query.get, the not-found check, Platform.query.all, the empty dict.
\* Tasks are numbered in the order the workers pick them up.
JobLoad(j, r) ==
  /\ jpc[j] = "queued"
  /\ \A k \in Jobs : k < j => jpc[k] # "queued"
  /\ jrel' = [jrel EXCEPT ![j] = r]
  /\ IF ~Exists(r)
       THEN /\ JobFail(j, "Release not found")
            /\ UNCHANGED <<loaded_status, jidx>>
       ELSE /\ loaded_status' = [loaded_status EXCEPT ![j] = status[r]]
            /\ jidx' = [jidx EXCEPT ![j] = 1]
            /\ jpc' = [jpc EXCEPT ![j] = "loop"]
            /\ UNCHANGED jerror
  /\ UNCHANGED <<dbVars, distribution_results, distribution_status, raised,
                 reqVars, outbox>>
  /\ UNCHANGED <<mailVars, sideVars>>

\* A loop that leaves for the commit as soon as one attempt has settled.
AfterAttemptFirstSettled(j, i) ==
  /\ jidx' = [jidx EXCEPT ![j] = i + 1]
  /\ jpc' = [jpc EXCEPT ![j] = "commit"]
  /\ UNCHANGED jerror

\* Where the task goes after the loop body ran for platform i.
AfterAttempt(j, i) ==
  /\ jidx' = [jidx EXCEPT ![j] = i + 1]
  /\ jpc' = [jpc EXCEPT ![j] = IF i + 1 \in EnumeratedPlatforms THEN "loop" ELSE "commit"]
  /\ UNCHANGED jerror

\* The loop body's try branch: the submission returned.
AttemptReturned(j, i) ==
  /\ distribution_results' =
       [distribution_results EXCEPT ![j] =
          Put(@, PlatformName(i), SuccessResult(DistributeToPlatform(jrel[j], PlatformName(i))))]
  /\ UNCHANGED raised
  /\ AfterAttempt(j, i)

\* A loop body without the inner except: the exception reaches the outer handler.
AttemptRaisedUncaught(j, i, e) ==
  /\ raised' = [raised EXCEPT ![j] = @ \cup {i}]
  /\ JobFail(j, e)
  /\ UNCHANGED <<jidx, distribution_results>>

\* The loop body's except branch: something inside the inner try raised e.
AttemptRaised(j, i, e) ==
  /\ raised' = [raised EXCEPT ![j] = @ \cup {i}]
  /\ distribution_results' =
       [distribution_results EXCEPT ![j] = Put(@, PlatformName(i), FailureResult(e))]
  /\ AfterAttempt(j, i)

\* One iteration of `for platform in platforms`.
JobAttempt(j) ==
  /\ jpc[j] = "loop"
  /\ jidx[j] \in EnumeratedPlatforms
  /\ \/ AttemptReturned(j, jidx[j])
     \/ \E e \in ErrorMessages : AttemptRaised(j, jidx[j], e)
  /\ UNCHANGED <<dbVars, jrel, loaded_status, distribution_status, reqVars, outbox>>
  /\ UNCHANGED <<mailVars, sideVars>>

\* A release status derived from the per-platform outcomes.
AggregateStatusFromOutcomes(results) ==
  IF WithStatus(results, "failed") # {} THEN "failed" ELSE "distributed"

\* The release status the task writes once the loop is over.
AggregateStatus(results) == "distributed"

\* release.distribution_status = ...; release.status = ...; db.session.commit().
\* distribution_status is no column of Release: the commit persists status only.
\* The commit raises when the database fails or the row was deleted since the load.
JobCommit(j) ==
  /\ jpc[j] = "commit"
  /\ \/ /\ Exists(jrel[j])
        /\ distribution_status' =
             [distribution_status EXCEPT ![j] = distribution_results[j]]
        /\ status' = [status EXCEPT ![jrel[j]] = AggregateStatus(distribution_results[j])]
        /\ jpc' = [jpc EXCEPT ![j] = "notify"]
        /\ UNCHANGED jerror
     \/ /\ distribution_status' =
             [distribution_status EXCEPT ![j] = distribution_results[j]]
        /\ JobFail(j, "commit failed")
        /\ UNCHANGED status
  /\ UNCHANGED <<title, is_active, distribution_logs, jrel, loaded_status, jidx,
                 distribution_results, raised, reqVars, outbox>>
  /\ UNCHANGED <<mailVars, sideVars>>

\* A message that lists the successful platforms only.
NotificationMessageSuccessOnly(j) ==
  [job |-> j, user_email |-> UserEmail, release_title |-> title[jrel[j]],
   results |-> [n \in WithStatus(distribution_results[j], "success") |->
                  distribution_results[j][n]]]

\* The arguments of send_distribution_notification.delay, tagged with the task
\* that dispatched them. The commit expired the release object, so user.email and
\* title are read from the database again.
NotificationMessage(j) ==
  [job |-> j, user_email |-> UserEmail, release_title |-> title[jrel[j]],
   results |-> distribution_results[j]]

\* send_distribution_notification.delay(...): the message reaches the broker, or
\* the dispatch raises, or the release row is gone when its attributes are read.
JobNotify(j) ==
  /\ jpc[j] = "notify"
  /\ \/ /\ Exists(jrel[j])
        /\ outbox' = outbox \cup {NotificationMessage(j)}
        /\ jpc' = [jpc EXCEPT ![j] = "final"]
        /\ UNCHANGED jerror
     \/ /\ Exists(jrel[j])
        /\ JobFail(j, "dispatch failed")
        /\ UNCHANGED outbox
     \/ /\ ~Exists(jrel[j])
        /\ JobFail(j, "release deleted")
        /\ UNCHANGED outbox
  /\ UNCHANGED <<dbVars, jrel, loaded_status, jidx, distribution_results,
                 distribution_status, raised, reqVars>>
  /\ UNCHANGED <<mailVars, sideVars>>

\* update_state(state='SUCCESS').
JobSucceed(j) ==
  /\ jpc[j] = "final"
  /\ jpc' = [jpc EXCEPT ![j] = "success"]
  /\ UNCHANGED <<dbVars, jrel, loaded_status, jidx, distribution_results,
                 distribution_status, raised, jerror, reqVars, outbox>>
  /\ UNCHANGED <<mailVars, sideVars>>

\* ------------------------------------------------------- delete_release
\* DELETE /api/releases/<id>: removes the row, whatever its status.
DeleteRelease(r) ==
  /\ Exists(r)
  /\ status' = [status EXCEPT ![r] = "deleted"]
  /\ title' = [title EXCEPT ![r] = None]
  /\ UNCHANGED <<is_active, distribution_logs, jobVars, reqVars, outbox, mailVars>>
  /\ UNCHANGED sideVars

\* ------------------------------------- send_distribution_notification task
\* A handler for a failed delivery that marks the release failed.
DeliveryFailedMarksRelease(m) ==
  /\ delivery_failed' = delivery_failed \cup {m}
  /\ status' = [status EXCEPT ![jrel[m.job]] = "failed"]
  /\ UNCHANGED <<title, is_active, distribution_logs, delivered>>

\* The except branch: the transport rejected the message; log and re-raise.
DeliveryFailed(m) ==
  /\ delivery_failed' = delivery_failed \cup {m}
  /\ UNCHANGED <<dbVars, delivered>>

\* The message was built and handed to the SMTP server.
DeliverySucceeded(m) ==
  /\ delivered' = delivered \cup {m}
  /\ UNCHANGED <<dbVars, delivery_failed>>

\* One run of the task for the message job j handed to the broker.
SendNotification(j) ==
  /\ \E m \in outbox \ (delivered \cup delivery_failed) :
       /\ m.job = j
       /\ \/ DeliverySucceeded(m)
          \/ DeliveryFailed(m)
  /\ UNCHANGED <<jobVars, reqVars, outbox, sideVars>>

\* ------------------------------------------- calls of the metadata processor
\* A caller invokes extract_metadata(file_path).
CallExtractMetadata ==
  /\ extracted = <<>>
  /\ extracted' = <<ExtractMetadata(audio_file)>>
  /\ UNCHANGED <<distVars, audio_file, file_record, validation, taskVars, artVars, cleanVars>>

\* A caller invokes validate_audio_file(file_path).
CallValidateAudioFile ==
  /\ validation = <<>>
  /\ validation' = <<ValidateAudioFile(audio_file)>>
  /\ UNCHANGED <<distVars, audio_file, file_record, extracted, taskVars, artVars, cleanVars>>

\* A caller invokes process_artwork(artwork_data, max_size).
CallProcessArtwork ==
  /\ artwork = <<>>
  /\ artwork' = <<ProcessArtwork(image, max_size)>>
  /\ UNCHANGED <<distVars, fileVars, image, max_size, cleanVars>>

\* os.remove(file_path) by another process: the housekeeping task or the delete
\* handler.
RemoveFile ==
  /\ audio_file.exists
  /\ audio_file' = [audio_file EXCEPT !.exists = FALSE]
  /\ UNCHANGED <<distVars, file_record, callVars, taskVars, artVars, cleanVars>>

\* ------------------------------------------------ process_audio_file task
\* The except branch: log, report FAILURE, re-raise. It writes no files row.
TaskFail(e) ==
  /\ tpc' = "failure"
  /\ terror' = e

\* An extraction step that stores the metadata in the files row at once.
TaskExtractWritesFirst ==
  /\ tpc = "queued"
  /\ LET got == ExtractMetadata(audio_file) IN
     IF got.raised # None
       THEN /\ TaskFail(got.raised)
            /\ UNCHANGED <<t_metadata, file_record>>
       ELSE /\ t_metadata' = got.value
            /\ file_record' =
                 IF file_record.exists
                   THEN [file_record EXCEPT !.duration = <<got.value[1].duration>>,
                                            !.bitrate = got.value[1].bitrate,
                                            !.sample_rate = <<got.value[1].sample_rate>>]
                   ELSE file_record
            /\ tpc' = "validate"
            /\ UNCHANGED terror
  /\ UNCHANGED <<distVars, audio_file, callVars, t_validation, artVars, cleanVars>>

\* metadata = metadata_processor.extract_metadata(file_path)
TaskExtract ==
  /\ tpc = "queued"
  /\ LET got == ExtractMetadata(audio_file) IN
     IF got.raised # None
       THEN /\ TaskFail(got.raised)
            /\ UNCHANGED t_metadata
       ELSE /\ t_metadata' = got.value
            /\ tpc' = "validate"
            /\ UNCHANGED terror
  /\ UNCHANGED <<distVars, audio_file, file_record, callVars, t_validation, artVars, cleanVars>>

\* validation = ...validate_audio_file(file_path); raise ValueError if not valid.
TaskValidate ==
  /\ tpc = "validate"
  /\ LET v == ValidateAudioFile(audio_file) IN
     /\ t_validation' = <<v>>
     /\ IF ~v.is_valid
          THEN TaskFail("ValueError: File validation failed")
          ELSE /\ tpc' = "update"
               /\ UNCHANGED terror
  /\ UNCHANGED <<distVars, audio_file, file_record, callVars, t_metadata, artVars, cleanVars>>

\* file_record = File.query.get(file_id); if there is one, assign the metadata
\* and commit. Of the attributes assigned, duration, bitrate and sample_rate are
\* columns of File; title, artist, album, status, metadata and waveform_data are
\* not and are lost with the session.
TaskUpdateRecord ==
  /\ tpc = "update"
  /\ IF file_record.exists
       THEN \/ /\ file_record' =
                    [file_record EXCEPT !.duration = <<t_metadata[1].duration>>,
                                        !.bitrate = t_metadata[1].bitrate,
                                        !.sample_rate = <<t_metadata[1].sample_rate>>]
               /\ tpc' = "final"
               /\ UNCHANGED terror
            \/ /\ TaskFail("commit failed")
               /\ UNCHANGED file_record
       ELSE /\ tpc' = "final"
            /\ UNCHANGED <<file_record, terror>>
  /\ UNCHANGED <<distVars, audio_file, callVars, t_metadata, t_validation, artVars, cleanVars>>

\* self.update_state(state='SUCCESS', ...)
TaskSucceed ==
  /\ tpc = "final"
  /\ tpc' = "success"
  /\ UNCHANGED <<distVars, audio_file, file_record, callVars, t_metadata,
                 t_validation, terror, artVars, cleanVars>>

\* ----------------------------------------------- cleanup_temp_files task
\* The frame of a step of the cleanup task.
CleanupFrame == UNCHANGED <<distVars, fileVars, artVars, dir_exists>>

\* The entry the loop of cleanup_old_files is at.
CurrentEntry == fs[Dirs[cdir], Head(scanned)]

\* The except branch of cleanup_temp_files: log and re-raise.
CleanupFail(e) ==
  /\ cpc' = "failure"
  /\ cerror' = e

\* cleanup_old_files returned: the next call, or the end of the task.
CleanupNextDir ==
  /\ IF cdir < Len(Dirs)
       THEN /\ cdir' = cdir + 1
            /\ cpc' = "scan"
       ELSE /\ cpc' = "done"
            /\ UNCHANGED cdir
  /\ UNCHANGED cerror

\* cleanup_old_files up to its loop: return when the directory is missing, else
\* compute the cutoff and list the directory.
CleanupScan ==
  /\ cpc = "scan"
  /\ IF ~dir_exists[Dirs[cdir]]
       THEN /\ CleanupNextDir
            /\ UNCHANGED scanned
       ELSE /\ scanned' = GlobFrom(Dirs[cdir], 1)
            /\ cpc' = "visit"
            /\ UNCHANGED <<cdir, cerror>>
  /\ UNCHANGED <<fs, removed>>
  /\ CleanupFrame

\* The loop head and os.path.isfile(file_path).
CleanupVisit ==
  /\ cpc = "visit"
  /\ IF scanned = <<>>
       THEN /\ CleanupNextDir
            /\ UNCHANGED scanned
       ELSE IF CurrentEntry.present /\ CurrentEntry.kind = "file"
         THEN /\ cpc' = "getmtime"
              /\ UNCHANGED <<scanned, cdir, cerror>>
         ELSE /\ scanned' = Tail(scanned)
              /\ UNCHANGED <<cpc, cdir, cerror>>
  /\ UNCHANGED <<fs, removed>>
  /\ CleanupFrame

\* os.path.getmtime(file_path), outside the try, and the comparison with the
\* cutoff.
CleanupGetMtime ==
  /\ cpc = "getmtime"
  /\ IF ~CurrentEntry.present
       THEN /\ CleanupFail("FileNotFoundError")
            /\ UNCHANGED scanned
       ELSE IF CurrentEntry.age = "older"
         THEN /\ cpc' = "remove"
              /\ UNCHANGED <<scanned, cerror>>
         ELSE /\ scanned' = Tail(scanned)
              /\ cpc' = "visit"
              /\ UNCHANGED cerror
  /\ UNCHANGED <<fs, removed, cdir>>
  /\ CleanupFrame

\* try: os.remove(file_path) except OSError: warn and go on.
CleanupRemove ==
  /\ cpc = "remove"
  /\ IF CurrentEntry.present /\ CurrentEntry.removable
       THEN /\ fs' = [fs EXCEPT ![Dirs[cdir], Head(scanned)].present = FALSE]
            /\ removed' = removed \cup {<<Dirs[cdir], Head(scanned)>>}
       ELSE UNCHANGED <<fs, removed>>
  /\ scanned' = Tail(scanned)
  /\ cpc' = "visit"
  /\ UNCHANGED <<cdir, cerror>>
  /\ CleanupFrame

\* Another process deletes entry k of directory d.
OtherProcessRemoves(d, k) ==
  /\ fs[d, k].present
  /\ fs' = [fs EXCEPT ![d, k].present = FALSE]
  /\ UNCHANGED cleanTaskVars
  /\ CleanupFrame

Next ==
  \/ \E t \in Titles : UploadRelease(t)
  \/ \E r \in ReleaseIds, t \in Titles : UpdateRelease(r, t)
  \/ \E q \in Requests, r \in ReleaseIds : RouteLoad(q, r)
  \/ \E q \in Requests : RouteCommit(q)
  \/ \E j \in Jobs, r \in ReleaseIds : JobLoad(j, r)
  \/ \E j \in Jobs : JobAttempt(j)
  \/ \E j \in Jobs : JobCommit(j)
  \/ \E j \in Jobs : JobNotify(j)
  \/ \E j \in Jobs : JobSucceed(j)
  \/ \E r \in ReleaseIds : DeleteRelease(r)
  \/ \E j \in Jobs : SendNotification(j)

Spec == Init /\ [][Next]_vars

\* ------------------------------------------------------ file processing
\* The metadata processor and the file task, on every file and files row.
InitFiles ==
  /\ EmptyDatabase
  /\ InitWorkers
  /\ \E f \in AudioFiles, rec \in FileRecords : InitFile(f, rec)
  /\ InitArtwork(SomeImage, <<MinArtworkSize, MinArtworkSize>>)
  /\ InitCleanup(SomeDirs, NoEntries)

NextFiles ==
  \/ CallExtractMetadata
  \/ CallValidateAudioFile
  \/ RemoveFile
  \/ TaskExtract
  \/ TaskValidate
  \/ TaskUpdateRecord
  \/ TaskSucceed

SpecFiles == InitFiles /\ [][NextFiles]_vars

\* process_artwork on every picture and box.
InitArtworks ==
  /\ EmptyDatabase
  /\ InitWorkers
  /\ InitFile(SomeAudioFile, SomeFileRecord)
  /\ \E img \in Images, max \in MaxSizes : InitArtwork(img, max)
  /\ InitCleanup(SomeDirs, NoEntries)

NextArtworks == CallProcessArtwork

SpecArtworks == InitArtworks /\ [][NextArtworks]_vars

\* ------------------------------------------- concurrent start requests
\* Several start-distribution requests in flight next to uploads, updates and
\* deletions; no distribution task runs.
InitRace ==
  /\ InitDatabase
  /\ InitTasks
  /\ InitRequests(RacingRequests)
  /\ InitFile(SomeAudioFile, SomeFileRecord)
  /\ InitArtwork(SomeImage, <<MinArtworkSize, MinArtworkSize>>)
  /\ InitCleanup(SomeDirs, NoEntries)

NextRace ==
  \/ \E t \in Titles : UploadRelease(t)
  \/ \E r \in ReleaseIds, t \in Titles : UpdateRelease(r, t)
  \/ \E q \in RacingRequests, r \in ReleaseIds : RouteLoad(q, r)
  \/ \E q \in RacingRequests : RouteCommit(q)
  \/ \E r \in ReleaseIds : DeleteRelease(r)

SpecRace == InitRace /\ [][NextRace]_vars

\* The start-distribution handler and the distribution task under the scheduling
\* of the web server and of the worker: a handler that loaded the release goes on
\* to its commit, and the worker runs every task it was given to its end. The
\* handler queues no task (the TODO after its commit), so the tasks here are the
\* calls made from outside the web application.
NextFair ==
  \/ \E t \in Titles : UploadRelease(t)
  \/ \E q \in Requests, r \in ReleaseIds : RouteLoad(q, r)
  \/ \E q \in Requests : RouteCommit(q)
  \/ \E j \in Jobs, r \in ReleaseIds : JobLoad(j, r)
  \/ \E j \in Jobs : JobAttempt(j)
  \/ \E j \in Jobs : JobCommit(j)
  \/ \E j \in Jobs : JobNotify(j)
  \/ \E j \in Jobs : JobSucceed(j)

\* One step of task j, from its load to its final state.
JobStep(j) ==
  \/ \E r \in ReleaseIds : JobLoad(j, r)
  \/ JobAttempt(j)
  \/ JobCommit(j)
  \/ JobNotify(j)
  \/ JobSucceed(j)

Fairness ==
  /\ \A j \in Jobs : WF_vars(JobStep(j))
  /\ \A q \in Requests : WF_vars(RouteCommit(q))

SpecFair == Init /\ [][NextFair]_vars /\ Fairness


\* ---------------------------------------------------------- housekeeping
\* The cleanup task on every content of the two scratch directories, next to
\* another process that deletes entries.
InitCleanups ==
  /\ EmptyDatabase
  /\ InitWorkers
  /\ InitFile(SomeAudioFile, SomeFileRecord)
  /\ InitArtwork(SomeImage, <<MinArtworkSize, MinArtworkSize>>)
  /\ \E dirs \in [DirNames -> BOOLEAN],
        files \in [DirNames \X EntryNumbers -> Entries \cup {NoEntry}] :
       /\ \A d \in DirNames, k \in EntryNumbers : files[d, k].present => dirs[d]
       /\ InitCleanup(dirs, files)

NextCleanups ==
  \/ CleanupScan
  \/ CleanupVisit
  \/ CleanupGetMtime
  \/ CleanupRemove
  \/ \E d \in DirNames, k \in EntryNumbers : OtherProcessRemoves(d, k)

SpecCleanups == InitCleanups /\ [][NextCleanups]_vars

\* ============================================================ properties
NonDraft == Statuses \ {"draft"}

\* The task j took a step.
JobStepped(j) == <<jpc[j], jidx[j]>> # <<jpc'[j], jidx'[j]>>

\* The request q took a step.
RequestStepped(q) == rpc[q] # rpc'[q]

\* The task has left its platform loop after entering it.
PastLoop(j) ==
  /\ loaded_status[j] # None
  /\ jpc[j] # "loop"

\* The task has committed the release.
Committed(j) == jpc[j] \in {"notify", "final", "success"} \/
                (jpc[j] = "failure" /\ jerror[j] \in {"dispatch failed", "release deleted"})

AllPlatformNames == {PlatformName(i) : i \in EnumeratedPlatforms}

\* Every per-platform outcome dict the program holds anywhere.
RecordedOutcomes ==
  UNION {{distribution_results[j][n] : n \in DOMAIN distribution_results[j]} : j \in Jobs}
  \cup UNION {{distribution_status[j][n] : n \in DOMAIN distribution_status[j]} : j \in Jobs}
  \cup UNION {{m.results[n] : n \in DOMAIN m.results} : m \in outbox}

\* C1: starting distribution on a release whose status is not draft fails with
\* InvalidState and leaves the status unchanged, for the start-distribution
\* request and for the distribute_release task alike.
C1_NonDraftRejected ==
  [][ /\ \A q \in Requests :
           RequestStepped(q) /\ rseen'[q] \in NonDraft
             => resp'[q] = 400 /\ status' = status
      /\ \A j \in Jobs :
           JobStepped(j) /\ loaded_status'[j] \in NonDraft
             => jpc'[j] = "failure" /\ jerror'[j] = "InvalidState" /\ status' = status
    ]_vars

\* C2: a run whose release fails the draft precondition aborts before any
\* attempt: no platform is submitted to, no per-platform result is written and
\* no notification is emitted.
C2_NoAttemptWithoutDraft ==
  \A j \in Jobs :
    loaded_status[j] \in NonDraft =>
      /\ distribution_results[j] = EmptyDict
      /\ distribution_status[j] = EmptyDict
      /\ raised[j] = {}
      /\ \A m \in outbox : m.job # j

\* C3: whatever the per-platform outcomes, the commit that ends the loop writes
\* status distributed; every task that reports SUCCESS committed it; and no
\* release ever has status failed.
C3_StatusDecoupledFromOutcomes ==
  /\ [][\A j \in Jobs :
          jpc[j] = "commit" /\ jpc'[j] = "notify" => status'[jrel[j]] = "distributed"]_vars
  /\ [](\A r \in ReleaseIds : status[r] # "failed")

\* C3 witness: a task committed distributed although every platform failed.
C3_Witness ==
  \E j \in Jobs :
    /\ jpc[j] = "success"
    /\ raised[j] = EnumeratedPlatforms
    /\ status[jrel[j]] = "distributed"

\* C4: once a task is past its loop, all N enumerated platforms were attempted
\* and its results hold exactly N outcomes, k failed for the k attempts that
\* raised and N-k successful; inside the loop the outcomes so far are exactly
\* those of the platforms already visited. A raise never ends the task.
C4_PerPlatformIsolation ==
  \A j \in Jobs :
    /\ PastLoop(j) =>
         /\ DOMAIN distribution_results[j] = AllPlatformNames
         /\ Cardinality(DOMAIN distribution_results[j]) = NumPlatforms
         /\ WithStatus(distribution_results[j], "failed") = {PlatformName(i) : i \in raised[j]}
         /\ Cardinality(WithStatus(distribution_results[j], "success"))
              = NumPlatforms - Cardinality(raised[j])
    /\ jpc[j] = "loop" =>
         DOMAIN distribution_results[j] = {PlatformName(i) : i \in 1..(jidx[j] - 1)}

\* C4 witness: a finished task whose first attempt raised and a later one returned.
C4_Witness ==
  \E j \in Jobs :
    /\ jpc[j] = "success"
    /\ 1 \in raised[j]
    /\ raised[j] # EnumeratedPlatforms

\* C5: a release's status changes only along draft -> processing,
\* processing -> distributed or processing -> failed.
C5_LifecycleOrder ==
  [][\A r \in ReleaseIds :
       Exists(r) /\ status'[r] \in Statuses /\ status'[r] # status[r] =>
         <<status[r], status'[r]>> \in
           {<<"draft", "processing">>, <<"processing", "distributed">>,
            <<"processing", "failed">>}]_vars

\* C6: a release is created with status draft, and its status becomes
\* processing only by a start-distribution request committing.
C6_CreatedAsDraft ==
  [][\A r \in ReleaseIds :
       /\ status[r] = "none" /\ status'[r] # "none" => status'[r] = "draft"
       /\ status[r] # "processing" /\ status'[r] = "processing" =>
            \E q \in Requests : rrel[q] = r /\ rpc[q] = "write" /\ resp'[q] = 200]_vars

\* C7: a run submits to exactly the active platforms: every outcome belongs to
\* an active platform, and past the loop every active platform has one.
C7_ActivePlatformsOnly ==
  \A j \in Jobs :
    /\ \A i \in PlatformIds :
         PlatformName(i) \in DOMAIN distribution_results[j] => is_active[i]
    /\ PastLoop(j) =>
         \A i \in PlatformIds :
           is_active[i] => PlatformName(i) \in DOMAIN distribution_results[j]

\* C8: in every recorded outcome, url and submission id are populated on
\* success and absent on failure; a failure carries an error message and a
\* success carries none.
C8_UrlIdIffSuccess ==
  \A o \in RecordedOutcomes :
    /\ o["status"] \in {"success", "failed"}
    /\ o["status"] = "success" =>
         /\ Get(o, "url") # None
         /\ Get(o, "submission_id") # None
         /\ "error" \notin DOMAIN o
    /\ o["status"] = "failed" =>
         /\ Get(o, "error") # None
         /\ "url" \notin DOMAIN o
         /\ "submission_id" \notin DOMAIN o

\* C8 witness: a notification carrying a success and a failure outcome.
C8_Witness ==
  \E m \in outbox :
    /\ WithStatus(m.results, "success") # {}
    /\ WithStatus(m.results, "failed") # {}

\* The distribution_logs rows of a release and platform.
LogsFor(r, i) == {l \in distribution_logs : l.release_id = r /\ l.platform_id = i}

\* C9: a failed attempt leaves an attempt record with status failed, the error
\* message and retry_count incremented; a successful one leaves a record with
\* status distributed and retry_count unchanged.
C9_AttemptRecorded ==
  \A j \in Jobs : \A i \in PlatformIds :
    PlatformName(i) \in DOMAIN distribution_results[j] =>
      LET o == distribution_results[j][PlatformName(i)] IN
      \E l \in LogsFor(jrel[j], i) :
        IF i \in raised[j]
          THEN /\ l.status = "failed"
               /\ l.error_message = o["error"]
               /\ l.retry_count >= 1
          ELSE /\ l.status = "distributed"
               /\ l.retry_count >= 0

\* The committed runs of release r in which platform i failed.
FailedRuns(r, i) ==
  {j \in Jobs : Committed(j) /\ jrel[j] = r /\ i \in raised[j]}

\* C10: each (release, platform) pair has at most one attempt record, and that
\* record accumulates the failures of all committed runs.
C10_OneAccumulatingRecord ==
  \A r \in ReleaseIds : \A i \in PlatformIds :
    /\ Cardinality(LogsFor(r, i)) <= 1
    /\ (\E j \in Jobs : Committed(j) /\ jrel[j] = r) =>
         \E l \in LogsFor(r, i) : l.retry_count = Cardinality(FailedRuns(r, i))

\* The notification events dispatched by run j.
Notifications(j) == {m \in outbox : m.job = j}

\* Run j has committed the terminal status and is past the dispatch statement.
PastDispatch(j) == Committed(j) /\ jpc[j] \in {"final", "success", "failure"}

\* The results of event m list every platform of run j with its outcome and are
\* the results the run assigned to the release.
ReflectsRun(m, j) ==
  /\ DOMAIN m.results = AllPlatformNames
  /\ m.results = distribution_status[j]
  /\ \A i \in EnumeratedPlatforms :
       Get(m.results[PlatformName(i)], "status") =
         IF i \in raised[j] THEN "failed" ELSE "success"

NotificationError ==
  \/ \E j \in Jobs : jpc[j] = "notify" /\ jpc'[j] = "failure"
  \/ delivery_failed' # delivery_failed

\* C12: a failing dispatch or a failing delivery leaves the release as committed:
\* its row, its attempt records and the results held by the runs do not change.
C12_NotificationErrorKeepsRelease ==
  [][NotificationError =>
       /\ dbVars' = dbVars
       /\ distribution_status' = distribution_status
       /\ distribution_results' = distribution_results]_vars

\* C12 witness: the delivery of a run's event failed, another run's dispatch
\* failed, and the release is distributed.
C12_Witness ==
  /\ \E m \in delivery_failed : status[jrel[m.job]] = "distributed"
  /\ \E j \in Jobs : jpc[j] = "failure" /\ jerror[j] = "dispatch failed"
                     /\ status[jrel[j]] = "distributed"

\* Every per-platform attempt of run j has settled: the run holds an outcome for
\* each enumerated platform and its loop is over.
Settled(j) ==
  /\ DOMAIN distribution_results[j] = AllPlatformNames
  /\ jidx[j] \notin EnumeratedPlatforms

\* C13: a run computes and writes the terminal status only after all its
\* attempts have settled, and a release is distributed only through a run whose
\* attempts have all settled.
C13_JoinBeforeStatus ==
  /\ \A j \in Jobs : (jpc[j] = "commit" \/ Committed(j)) => Settled(j)
  /\ \A r \in ReleaseIds :
       status[r] = "distributed" =>
         \E j \in Jobs : Committed(j) /\ jrel[j] = r /\ Settled(j)

\* C13 witness: a run has just written distributed, after attempts that
\* succeeded and attempts that failed.
C13_Witness ==
  \E j \in Jobs :
    /\ jpc[j] = "notify"
    /\ status[jrel[j]] = "distributed"
    /\ raised[j] # {} /\ raised[j] # EnumeratedPlatforms
    /\ Settled(j)

\* The runs of release r that have committed.
CommittedRuns(r) == {j \in Jobs : Committed(j) /\ jrel[j] = r}

\* The results run k assigned to the release hold every outcome that run j settled.
HoldsOutcomesOf(k, j) ==
  \A n \in DOMAIN distribution_results[j] :
    /\ n \in DOMAIN distribution_status[k]
    /\ distribution_status[k][n] = distribution_results[j][n]

\* C14: whatever the interleaving of the runs of one release, the results
\* recorded on the release hold the outcome of every settled attempt of every
\* committed run: no run's outcomes are lost to another writer.
C14_NoLostUpdates ==
  \A r \in ReleaseIds :
    CommittedRuns(r) # {} =>
      \E k \in CommittedRuns(r) : \A j \in CommittedRuns(r) : HoldsOutcomesOf(k, j)

\* A distribution run of release r has started: the release is in processing.
RunStarted(r) == status[r] = "processing"

\* C15: once a run has started no request removes the release: whatever step is
\* taken, the row of a release whose run has started is still there.
C15_NoAbortOnceStarted ==
  [][\A r \in ReleaseIds : RunStarted(r) => status'[r] \in Statuses]_vars

\* The dicts validate_audio_file has returned, to a caller or to the file task.
ValidationResults ==
  {validation[k] : k \in DOMAIN validation} \cup
  {t_validation[k] : k \in DOMAIN t_validation}

\* The error list of the path on which extraction raised exception e.
CouldNotValidate(e) == <<"Could not validate audio file: " \o e>>

\* C16: every dict validate_audio_file returns, on the normal path and on the
\* path where extraction raises, has is_valid true exactly when errors is empty.
C16_ValidIffNoErrors ==
  \A v \in ValidationResults : v.is_valid = (v.errors = <<>>)

\* C16 witness: the task got a valid result with warnings, and a later call on
\* the removed file took the except path.
C16_Witness ==
  /\ validation = <<[is_valid |-> FALSE,
                     errors |-> CouldNotValidate("FileNotFoundError: Audio file not found"),
                     warnings |-> <<>>]>>
  /\ t_validation # <<>>
  /\ t_validation[1].is_valid
  /\ t_validation[1].warnings # <<>>

\* 1 when the rule fires, else 0.
Count(fires) == IF fires THEN 1 ELSE 0

\* C17: on a file whose metadata was extracted, the four rules are evaluated
\* independently with strict thresholds: duration < 30 gives exactly one error;
\* sample rate < 44100, a present bitrate < 128000 and size < 480000 give one
\* warning each and no error; is_valid = (duration >= 30).
C17_FourIndependentRules ==
  \A k \in DOMAIN validation :
    LET v == validation[k]
        f == audio_file
        duration == IntSeconds(f.length)
    IN (\A e \in ErrorMessages \cup {"FileNotFoundError: Audio file not found",
                                      "ValueError: Unsupported audio format",
                                      "MutagenError"} : v.errors # CouldNotValidate(e)) =>
         /\ Len(v.errors) = Count(duration < MinDuration)
         /\ Len(v.warnings) =
              Count(f.sample_rate < MinSampleRate)
              + Count(f.bitrate # <<>> /\ f.bitrate[1] < MinBitrate)
              + Count(f.size < MinFileSize)
         /\ v.is_valid = (duration >= MinDuration)

\* The outcome the claim gives extract on file f, where it gives one.
FailsAsSpecified(f, got) ==
  /\ ~f.exists =>
       got = Raise("FileNotFoundError: Audio file not found")
  /\ f.exists /\ LowerExt(f.ext) \notin SUPPORTED_FORMATS =>
       got = Raise("ValueError: Unsupported audio format")

\* C18: a call of extract_metadata on a missing path raises FileNotFoundError,
\* and on an existing file with an unsupported extension raises the
\* unsupported-format ValueError; neither returns metadata. The same holds for
\* the call inside the file task.
C18_ExtractFailures ==
  [][/\ extracted = <<>> /\ extracted' # <<>> =>
          FailsAsSpecified(audio_file, extracted'[1])
     /\ tpc = "queued" /\ tpc' # "queued" =>
          /\ ~audio_file.exists =>
               /\ tpc' = "failure" /\ t_metadata' = <<>>
               /\ terror' = "FileNotFoundError: Audio file not found"
          /\ audio_file.exists /\ LowerExt(audio_file.ext) \notin SUPPORTED_FORMATS =>
               /\ tpc' = "failure" /\ t_metadata' = <<>>
               /\ terror' = "ValueError: Unsupported audio format"]_vars

\* C18 witness: the task failed on the unsupported extension of an existing
\* file and, the file removed, a call failed with FileNotFoundError.
C18_Witness ==
  /\ tpc = "failure" /\ terror = "ValueError: Unsupported audio format"
  /\ extracted = <<Raise("FileNotFoundError: Audio file not found")>>

\* The file task aborted because extraction raised or validation was not valid.
AbortedOnFile ==
  /\ tpc = "failure"
  /\ terror # "commit failed"

\* C19: when extraction raises or validation is not valid, the task aborts and
\* the files row ends with processing status failed and the error recorded.
C19_FailureMarksFile ==
  AbortedOnFile /\ file_record.exists =>
    /\ file_record.processing_status = "failed"
    /\ file_record.processing_error # None

\* The picture is smaller than the minimum in width or in height.
TooSmall(img) == img.width < MinArtworkSize \/ img.height < MinArtworkSize

\* C20: on a decodable picture process_artwork fails, with the too-small error,
\* exactly when a side is below 1400; otherwise the output fits the box, is not
\* larger than the input, keeps the aspect ratio up to the rounding of one side,
\* keeps the size of an input that fits, and is a JPEG.
C20_ArtworkContract ==
  \A k \in DOMAIN artwork :
    LET got == artwork[k]
        w == image.width
        h == image.height
    IN image.valid =>
         /\ (got.raised # None) = TooSmall(image)
         /\ TooSmall(image) =>
              got = Raise("Could not process artwork: Artwork must be at least 1400x1400 pixels")
         /\ got.raised = None =>
              LET out == got.value[1] IN
              /\ out.width <= max_size[1] /\ out.height <= max_size[2]
              /\ out.width <= w /\ out.height <= h
              /\ Abs(out.width * h - out.height * w) < (IF w > h THEN w ELSE h)
              /\ (w <= max_size[1] /\ h <= max_size[2]) =>
                   (out.width = w /\ out.height = h)
              /\ out.format = "JPEG"

\* Entry e of directory d is a regular file that the pass is to consider: any
\* file when no pattern is given, a file named *.tmp in the upload folder.
InScope(d, e) ==
  /\ e.kind = "file"
  /\ d = "uploads" => (e.tmp /\ ~e.hidden)

\* C21: after a pass, every regular file (matching the pattern, if one is
\* given) older than the threshold is gone, and the pass has removed no file
\* newer than the threshold.
C21_OldRemovedNewKept ==
  cpc = "done" =>
    \A d \in DirNames, k \in EntryNumbers :
      /\ InScope(d, fs[d, k]) /\ fs[d, k].age = "older" => ~fs[d, k].present
      /\ fs[d, k].age = "newer" => <<d, k>> \notin removed

\* C22: whenever another process deletes entries, the task raises no error and
\* does not end in failure.
C22_ToleratesConcurrentRemoval ==
  cpc # "failure" /\ cerror = None

\* C23: the status of every release row is one of draft, processing,
\* distributed, failed, whatever operations have run.
C23_StatusInDomain ==
  \A r \in ReleaseIds :
    status[r] \notin {"none", "deleted"} => status[r] \in Statuses

\* C23 witness: a release that a start-distribution request moved to processing
\* and a run then moved to distributed.
C23_Witness ==
  \E r \in ReleaseIds :
    /\ status[r] = "distributed"
    /\ \E q \in Requests : rrel[q] = r /\ resp[q] = 200
    /\ \E j \in Jobs : jrel[j] = r /\ loaded_status[j] = "processing" /\ Committed(j)

\* The requests that answered 200 for release r: each reports a started run.
Started(r) == {q \in DOMAIN rpc : rrel[q] = r /\ resp[q] = 200}

\* C24: of the start-distribution requests for one draft release, handled in
\* any interleaving, at most one succeeds; every other one is rejected as not
\* draft.
C24_AtMostOneStart ==
  \A r \in ReleaseIds :
    /\ Cardinality(Started(r)) <= 1
    /\ \A q \in DOMAIN rpc :
         rrel[q] = r /\ rpc[q] = "done" /\ rseen[q] # None /\ Started(r) \ {q} # {} =>
           resp[q] = 400

\* The final states of a distribution task.
JobEnded(j) == jpc[j] \in {"success", "failure"}

\* C25: when queued jobs are executed fairly, a release whose status became
\* processing eventually reaches distributed or failed, and a distribution job
\* that entered its loop ends, having made one attempt per enumerated platform
\* when it leaves the loop.
C25_ProcessingReachesTerminal ==
  /\ \A r \in ReleaseIds :
       (status[r] = "processing") ~> (status[r] \in {"distributed", "failed"})
  /\ \A j \in Jobs : (jpc[j] = "loop") ~> JobEnded(j)
  /\ [](\A j \in Jobs : PastLoop(j) => jidx[j] = NumPlatforms + 1)

\* C26: a distribution job that ends in FAILURE has committed nothing to the
\* release; a job that committed status distributed ends in SUCCESS.
C26_FailureCommitsNothing ==
  \A j \in Jobs : jpc[j] = "failure" => ~Committed(j)

\* C27: the file task reports SUCCESS only if the files row exists and the
\* extracted metadata was written to it and committed by that task.
C27_SuccessMeansWritten ==
  tpc = "success" =>
    /\ file_record.exists
    /\ file_record.duration = <<t_metadata[1].duration>>
    /\ file_record.bitrate = t_metadata[1].bitrate
    /\ file_record.sample_rate = <<t_metadata[1].sample_rate>>

\* C28: when extraction raises or validation is not valid the task leaves the
\* files row as it was; the row's metadata fields are written only after
\* extraction returned and validation was valid.
C28_WritesOnlyAfterBoth ==
  /\ AbortedOnFile => file_record \in FileRecords
  /\ file_record \notin FileRecords =>
       /\ t_metadata # <<>>
       /\ t_validation # <<>>
       /\ t_validation[1].is_valid
       /\ tpc \in {"final", "success"}

\* The task aborted on a validation that was not valid, next to an existing row.
C28_Witness ==
  /\ file_record.exists
  /\ tpc = "failure"
  /\ terror = "ValueError: File validation failed"
  /\ t_metadata # <<>>

\* C29: a run's notification is dispatched only after the run committed the
\* release, the release's persisted status is distributed at the moment of the
\* dispatch, and SUCCESS is reported only after the notification was dispatched.
C29_DispatchOrdering ==
  [][\A j \in Jobs :
       /\ Notifications(j)' # Notifications(j) =>
            /\ Committed(j)
            /\ status[jrel[j]] = "distributed"
       /\ jpc'[j] = "success" => Notifications(j)' # {}]_vars

\* C30: in every state, a release whose persisted status is distributed has a
\* stored outcome for every platform the run enumerated: an observer never sees
\* status distributed with missing or partial results.
C30_DistributedHasResults ==
  \A r \in ReleaseIds :
    status[r] = "distributed" =>
      \A i \in EnumeratedPlatforms : LogsFor(r, i) # {}

====
